---- MODULE Spec2Model ----
(***************************************************************************)
(* State-machine model of the Storacha account/space/content store         *)
(* (apps/dao-dapp/src/stores/useStorachaStore.ts).                         *)
(*                                                                         *)
(* The zustand state object is the variable `state`; `set(partial)` is the *)
(* shallow merge zustand performs.  Every asynchronous handler is split at *)
(* its provider call (the await marked TODO in each try block): the part   *)
(* before the call is the handler's own action, the part after it is a     *)
(* Fulfilled action (try block continues) or a Rejected action (catch      *)
(* block).  Calls whose provider answer is outstanding are kept in the bag *)
(* `inflight`.  `last` names the latest step with its arguments (for       *)
(* removeAccount also its local isCurrentAccount, for switchAccount the    *)
(* isAuthenticated flag it found, for a provider-backed handler, a catch    *)
(* block and clearError the error it replaces, for a reload the transient  *)
(* fields it discards), and                                                *)
(* `outcome` is what the caller of that step sees:                         *)
(* "pending" (promise not settled), "returned" or "raised".  `calls`       *)
(* counts the handler calls made so far and `budget` is the number of      *)
(* calls the application makes; they only bound the exploration.           *)
(***************************************************************************)
EXTENDS Bags, FiniteSets, Integers, Sequences, TLC

VARIABLES state, persisted, inflight, last, outcome, calls, budget

vars == <<state, persisted, inflight, last, outcome, calls, budget>>

----------------------------------------------------------------------------
(* Bounds of the model *)

MaxCalls == 3
MaxInFlight == 2
MaxSpaces == 2
MaxContents == 2

----------------------------------------------------------------------------
(* Values *)

\* JavaScript null in an object-typed slot.
NULL == [null |-> TRUE]

AccountIds == {1, 2}
Emails == {"a@x.com", "b@x.com"}
SpaceIds == {1, 2}
SpaceNames == {"Team"}
ContentIds == {1, 2}

\* StorachaAccount { id, email }
StorachaAccount == [id : AccountIds, email : Emails]

\* StorachaSpace { id, name }
StorachaSpace == [id : SpaceIds, name : SpaceNames]

\* The File objects handed to uploadToSpace (name, size, type).
Files == {[name |-> "doc.txt", size |-> 10, type |-> "text/plain"]}

\* StorachaContent { id, name, size, type }
StorachaContent == [id : ContentIds, name : {f.name : f \in Files},
                    size : {f.size : f \in Files}, type : {f.type : f \in Files}]

\* A message held in the error slot.
Message(m) == [message |-> m]

\* What a rejected provider call throws: an Error carrying a message, or a
\* value that is not an Error.
Thrown == {[isError |-> TRUE, message |-> "provider error"], [isError |-> FALSE]}

\* Mutant of errorMessage: a message already recorded is kept.
errorMessageFirstWins(thrown, fallback) ==
  IF state.error # NULL THEN state.error
  ELSE IF thrown.isError THEN Message(thrown.message) ELSE Message(fallback)

\* error instanceof Error ? error.message : fallback
errorMessage(thrown, fallback) ==
  IF thrown.isError THEN Message(thrown.message) ELSE Message(fallback)

\* Sequences over S with at most n elements.
SeqUpTo(S, n) == UNION {[1..k -> S] : k \in 0..n}

\* What the provider's space listing can answer: spaces with distinct ids.
SpaceListings ==
  {l \in SeqUpTo(StorachaSpace, MaxSpaces) :
     \A i, j \in 1..Len(l) : l[i].id = l[j].id => i = j}

\* What the provider's content listing can answer.
ContentListings == SeqUpTo(StorachaContent, 1)

----------------------------------------------------------------------------
(* Array and object helpers *)

\* array.some((x) => x.id === id)
some(arr, id) == \E i \in 1..Len(arr) : arr[i].id = id

\* array.find((x) => x.id === id), null standing for undefined
find(arr, id) ==
  IF some(arr, id)
    THEN arr[CHOOSE i \in 1..Len(arr) :
               arr[i].id = id /\ \A j \in 1..(i - 1) : arr[j].id # id]
    ELSE NULL

\* array.filter((x) => x.id !== id)
filterOut(arr, id) == SelectSeq(arr, LAMBDA x : x.id # id)

\* The empty object {} used for spaceContents.
EmptyContents == <<>>

\* state.spaceContents[spaceId] || []
contentsOf(sc, spaceId) == IF spaceId \in DOMAIN sc THEN sc[spaceId] ELSE <<>>

\* { ...sc, [spaceId]: list }
withKey(sc, spaceId, list) == (spaceId :> list) @@ sc

\* copy of sc with `delete copy[spaceId]`
withoutKey(sc, spaceId) == [k \in (DOMAIN sc) \ {spaceId} |-> sc[k]]

----------------------------------------------------------------------------
(* The store *)

initialState ==
  [currentAccount |-> NULL,
   isAuthenticated |-> FALSE,
   accounts |-> <<>>,
   isLoading |-> FALSE,
   error |-> NULL,
   spaces |-> <<>>,
   selectedSpace |-> NULL,
   isLoadingSpaces |-> FALSE,
   spaceContents |-> EmptyContents,
   isLoadingContents |-> FALSE]

\* zustand set(partial): shallow merge of partial into the state object.
set(s, partial) == partial @@ s

\* Mutant of partialize: the error message is stored too.
partializeWithError(s) ==
  [currentAccount |-> s.currentAccount,
   isAuthenticated |-> s.isAuthenticated,
   accounts |-> s.accounts,
   selectedSpace |-> s.selectedSpace,
   error |-> s.error]

\* persist option partialize: the subset written to localStorage.
partialize(s) ==
  [currentAccount |-> s.currentAccount,
   isAuthenticated |-> s.isAuthenticated,
   accounts |-> s.accounts,
   selectedSpace |-> s.selectedSpace]

\* The persist middleware rewrites the stored record after every set.
commit(s) ==
  /\ state' = s
  /\ persisted' = partialize(s)

\* A handler may start a provider call while fewer than MaxInFlight are open.
canStart == BagCardinality(inflight) < MaxInFlight

start(task) == inflight' = inflight (+) SetToBag({task})

settle(task) == inflight' = inflight (-) SetToBag({task})

\* A step that is a call of a handler (or a page reload) by the application,
\* which makes at most budget calls.
call == calls < budget /\ calls' = calls + 1 /\ UNCHANGED budget

\* A step that resumes a handler when its provider call settles.
resume == UNCHANGED <<calls, budget>>

pending(op) == {t \in BagToSet(inflight) : t.op = op}

Init ==
  /\ state = initialState
  /\ persisted = partialize(initialState)
  /\ inflight = EmptyBag
  /\ last = <<"create">>
  /\ outcome = "returned"
  /\ calls = 0
  /\ budget = MaxCalls

----------------------------------------------------------------------------
(* Authentication actions *)

\* login, up to the provider call (line 65)
login(email) ==
  /\ call
  /\ last' = <<"login", email, state.error>>
  /\ canStart
  /\ commit(set(state, [isLoading |-> TRUE, error |-> NULL]))
  /\ start([op |-> "login", email |-> email])
  /\ outcome' = "pending"

\* Mutant of loginSuccess: the account is appended without the some() test.
loginSuccessAppends(s, account) ==
  [currentAccount |-> account,
   isAuthenticated |-> TRUE,
   accounts |-> Append(s.accounts, account),
   isLoading |-> FALSE,
   error |-> NULL]

\* Mutant of loginSuccess: the error slot is not cleared on success.
loginSuccessKeepsError(s, account) ==
  [currentAccount |-> account,
   isAuthenticated |-> TRUE,
   accounts |-> IF some(s.accounts, account.id) THEN s.accounts
                ELSE Append(s.accounts, account),
   isLoading |-> FALSE]

\* Mutant of loginSuccess: the space context is cleared as switchAccount does.
loginSuccessClearsContext(s, account) ==
  [currentAccount |-> account,
   isAuthenticated |-> TRUE,
   accounts |-> IF some(s.accounts, account.id) THEN s.accounts
                ELSE Append(s.accounts, account),
   isLoading |-> FALSE,
   error |-> NULL,
   selectedSpace |-> NULL,
   spaces |-> <<>>,
   spaceContents |-> EmptyContents]

\* login, the updater run when the provider answers (lines 78-86)
loginSuccess(s, account) ==
  [currentAccount |-> account,
   isAuthenticated |-> TRUE,
   accounts |-> IF some(s.accounts, account.id) THEN s.accounts
                ELSE Append(s.accounts, account),
   isLoading |-> FALSE,
   error |-> NULL]

loginFulfilled(task, account) ==
  /\ resume
  /\ last' = <<"loginFulfilled", task, account>>
  /\ task \in pending("login")
  /\ account.email = task.email
  /\ commit(set(state, loginSuccess(state, account)))
  /\ settle(task)
  /\ outcome' = "returned"

\* Mutant of loginFailure: the catch block forgets the loading flag.
loginFailureKeepsLoading(thrown) ==
  [error |-> errorMessage(thrown, "Login failed")]

\* login, the catch block (lines 87-93)
loginFailure(thrown) ==
  [isLoading |-> FALSE, error |-> errorMessage(thrown, "Login failed")]

loginRejected(task, thrown) ==
  /\ resume
  /\ last' = <<"loginRejected", task, thrown, state.error>>
  /\ task \in pending("login")
  /\ commit(set(state, loginFailure(thrown)))
  /\ settle(task)
  /\ outcome' = "raised"

\* Mutant of logoutUpdate: logout also forgets the known accounts.
logoutClearsAccounts ==
  [currentAccount |-> NULL,
   isAuthenticated |-> FALSE,
   accounts |-> <<>>,
   selectedSpace |-> NULL,
   spaces |-> <<>>,
   spaceContents |-> EmptyContents]

\* Mutant of logoutUpdate: logout also clears the space loading flag.
logoutStopsLoading ==
  [currentAccount |-> NULL,
   isAuthenticated |-> FALSE,
   selectedSpace |-> NULL,
   spaces |-> <<>>,
   spaceContents |-> EmptyContents,
   isLoadingSpaces |-> FALSE]

\* logout (lines 96-104)
logoutUpdate ==
  [currentAccount |-> NULL,
   isAuthenticated |-> FALSE,
   selectedSpace |-> NULL,
   spaces |-> <<>>,
   spaceContents |-> EmptyContents]

logout ==
  /\ call
  /\ last' = <<"logout">>
  /\ commit(set(state, logoutUpdate))
  /\ UNCHANGED inflight
  /\ outcome' = "returned"

\* Mutant of addAccountUpdate: an existing record is overwritten (upsert).
addAccountUpsert(s, account) ==
  [accounts |-> IF some(s.accounts, account.id)
                  THEN [i \in 1..Len(s.accounts) |->
                          IF s.accounts[i].id = account.id THEN account
                          ELSE s.accounts[i]]
                  ELSE Append(s.accounts, account)]

\* Mutant of addAccountUpdate: the added account becomes the current one.
addAccountLogsIn(s, account) ==
  [accounts |-> IF some(s.accounts, account.id) THEN s.accounts
                ELSE Append(s.accounts, account),
   currentAccount |-> account,
   isAuthenticated |-> TRUE]

\* addAccount (lines 125-131)
addAccountUpdate(s, account) ==
  [accounts |-> IF some(s.accounts, account.id) THEN s.accounts
                ELSE Append(s.accounts, account)]

addAccount(account) ==
  /\ call
  /\ last' = <<"addAccount", account>>
  /\ commit(set(state, addAccountUpdate(state, account)))
  /\ UNCHANGED inflight
  /\ outcome' = "returned"

\* removeAccount (lines 133-146)
\* state.currentAccount?.id === accountId (line 136)
isCurrentAccount(s, accountId) ==
  s.currentAccount # NULL /\ s.currentAccount.id = accountId

\* Mutant of removeAccountUpdate: the spaces of the removed current account
\* are kept.
removeAccountKeepsSpaces(s, accountId) ==
  LET newAccounts == filterOut(s.accounts, accountId)
  IN [accounts |-> newAccounts,
      currentAccount |-> IF isCurrentAccount(s, accountId) THEN NULL
                         ELSE s.currentAccount,
      isAuthenticated |-> IF isCurrentAccount(s, accountId) THEN FALSE
                          ELSE s.isAuthenticated,
      selectedSpace |-> IF isCurrentAccount(s, accountId) THEN NULL
                        ELSE s.selectedSpace,
      spaceContents |-> IF isCurrentAccount(s, accountId) THEN EmptyContents
                        ELSE s.spaceContents]

\* Mutant of removeAccountUpdate: the session is cleared whichever account is
\* removed.
removeAccountAlwaysClears(s, accountId) ==
  LET newAccounts == filterOut(s.accounts, accountId)
  IN [accounts |-> newAccounts,
      currentAccount |-> NULL,
      isAuthenticated |-> FALSE,
      selectedSpace |-> NULL,
      spaces |-> <<>>,
      spaceContents |-> EmptyContents]

\* Mutant of removeAccountUpdate: the authenticated flag is not cleared.
removeAccountKeepsFlag(s, accountId) ==
  LET newAccounts == filterOut(s.accounts, accountId)
  IN [accounts |-> newAccounts,
      currentAccount |-> IF isCurrentAccount(s, accountId) THEN NULL
                         ELSE s.currentAccount,
      selectedSpace |-> IF isCurrentAccount(s, accountId) THEN NULL
                        ELSE s.selectedSpace,
      spaces |-> IF isCurrentAccount(s, accountId) THEN <<>> ELSE s.spaces,
      spaceContents |-> IF isCurrentAccount(s, accountId) THEN EmptyContents
                        ELSE s.spaceContents]

\* Mutant of removeAccountUpdate: the removed account stays current.
removeAccountKeepsCurrent(s, accountId) ==
  [accounts |-> filterOut(s.accounts, accountId)]

removeAccountUpdate(s, accountId) ==
  LET newAccounts == filterOut(s.accounts, accountId)
  IN [accounts |-> newAccounts,
      currentAccount |-> IF isCurrentAccount(s, accountId) THEN NULL
                         ELSE s.currentAccount,
      isAuthenticated |-> IF isCurrentAccount(s, accountId) THEN FALSE
                          ELSE s.isAuthenticated,
      selectedSpace |-> IF isCurrentAccount(s, accountId) THEN NULL
                        ELSE s.selectedSpace,
      spaces |-> IF isCurrentAccount(s, accountId) THEN <<>> ELSE s.spaces,
      spaceContents |-> IF isCurrentAccount(s, accountId) THEN EmptyContents
                        ELSE s.spaceContents]

removeAccount(accountId) ==
  /\ call
  /\ last' = <<"removeAccount", accountId, isCurrentAccount(state, accountId)>>
  /\ commit(set(state, removeAccountUpdate(state, accountId)))
  /\ UNCHANGED inflight
  /\ outcome' = "returned"

----------------------------------------------------------------------------
(* Spaces actions *)

\* Mutant of fetchSpacesBegin: the no-account guard is missing.
fetchSpacesBeginNoGuard(s) ==
  set(s, [isLoadingSpaces |-> TRUE, error |-> NULL])

\* fetchSpaces, up to the provider call (lines 150-156): the state it leaves.
fetchSpacesBegin(s) ==
  IF s.currentAccount = NULL
    THEN set(s, [error |-> Message("No account selected")])
    ELSE set(s, [isLoadingSpaces |-> TRUE, error |-> NULL])

\* The provider call fetchSpaces makes for the account it read at line 150.
fetchSpacesTask(s) == [op |-> "fetchSpaces", account |-> s.currentAccount]

fetchSpaces ==
  /\ call
  /\ last' = <<"fetchSpaces", state.error>>
  /\ commit(fetchSpacesBegin(state))
  /\ IF state.currentAccount = NULL
       THEN UNCHANGED inflight /\ outcome' = "returned"
       ELSE canStart /\ start(fetchSpacesTask(state)) /\ outcome' = "pending"

\* fetchSpaces, the provider answered (line 166)
fetchSpacesFulfilled(task, spaces) ==
  /\ resume
  /\ last' = <<"fetchSpacesFulfilled", task, spaces>>
  /\ task \in pending("fetchSpaces")
  /\ commit(set(state, [spaces |-> spaces, isLoadingSpaces |-> FALSE]))
  /\ settle(task)
  /\ outcome' = "returned"

\* Mutant of fetchSpacesFailure: a failed listing empties the space list.
fetchSpacesFailureClearsSpaces(thrown) ==
  [spaces |-> <<>>,
   isLoadingSpaces |-> FALSE,
   error |-> errorMessage(thrown, "Failed to fetch spaces")]

\* Mutant of fetchSpacesFailure: a failed listing rolls the identity back.
fetchSpacesFailureRollsBack(thrown) ==
  [currentAccount |-> NULL,
   isAuthenticated |-> FALSE,
   isLoadingSpaces |-> FALSE,
   error |-> errorMessage(thrown, "Failed to fetch spaces")]

\* fetchSpaces, the state set in the catch block (lines 168-171)
fetchSpacesFailure(thrown) ==
  [isLoadingSpaces |-> FALSE,
   error |-> errorMessage(thrown, "Failed to fetch spaces")]

\* fetchSpaces, the catch block (lines 167-172): recorded, not re-raised
fetchSpacesRejected(task, thrown) ==
  /\ resume
  /\ last' = <<"fetchSpacesRejected", task, thrown, state.error>>
  /\ task \in pending("fetchSpaces")
  /\ commit(set(state, fetchSpacesFailure(thrown)))
  /\ settle(task)
  /\ outcome' = "returned"

\* Mutant of switchAccountNotFound: a failed lookup also ends the session.
switchAccountNotFoundLogsOut ==
  [error |-> Message("Account not found"),
   currentAccount |-> NULL,
   isAuthenticated |-> FALSE]

\* switchAccount, the state set when the lookup fails (line 109)
switchAccountNotFound == [error |-> Message("Account not found")]

\* Mutant of switchAccountUpdate: the previous account's spaces are kept.
switchAccountKeepsSpaces(account) ==
  [currentAccount |-> account,
   isAuthenticated |-> TRUE,
   selectedSpace |-> NULL,
   spaceContents |-> EmptyContents]

\* switchAccount, the state set at lines 113-119
switchAccountUpdate(account) ==
  [currentAccount |-> account,
   isAuthenticated |-> TRUE,
   selectedSpace |-> NULL,
   spaces |-> <<>>,
   spaceContents |-> EmptyContents]

\* switchAccount (lines 106-123): the lookup, the set, and the synchronous
\* part of the fetchSpaces call it awaits; the call in flight is marked as
\* awaited by switchAccount, whose promise settles when the listing does.
switchAccount(accountId) ==
  /\ call
  /\ last' = <<"switchAccount", accountId, state.isAuthenticated>>
  /\ LET account == find(state.accounts, accountId)
     IN IF account = NULL
          THEN /\ commit(set(state, switchAccountNotFound))
               /\ UNCHANGED inflight
               /\ outcome' = "returned"
          ELSE LET switched == set(state, switchAccountUpdate(account))
               IN /\ canStart
                  /\ commit(fetchSpacesBegin(switched))
                  /\ start([awaitedBy |-> "switchAccount"] @@ fetchSpacesTask(switched))
                  /\ outcome' = "pending"

\* createSpace, up to the provider call (lines 176-182)
createSpace(name) ==
  /\ call
  /\ last' = <<"createSpace", name, state.error>>
  /\ IF state.currentAccount = NULL
       THEN /\ commit(set(state, [error |-> Message("No account selected")]))
            /\ UNCHANGED inflight
            /\ outcome' = "returned"
       ELSE /\ canStart
            /\ commit(set(state, [isLoadingSpaces |-> TRUE, error |-> NULL]))
            /\ start([op |-> "createSpace", account |-> state.currentAccount,
                      name |-> name])
            /\ outcome' = "pending"

\* Mutant of createSpaceSuccess: the new space is put in front of the list.
createSpaceSuccessPrepends(s, newSpace) ==
  [spaces |-> <<newSpace>> \o s.spaces, isLoadingSpaces |-> FALSE]

\* Mutant of createSpaceSuccess: the list is rebuilt from the new space only
\* (an update computed without the spaces added meanwhile).
createSpaceSuccessOverwrites(s, newSpace) ==
  [spaces |-> <<newSpace>>, isLoadingSpaces |-> FALSE]

\* createSpace, the updater run when the provider answers (lines 190-198)
createSpaceSuccess(s, newSpace) ==
  [spaces |-> Append(s.spaces, newSpace), isLoadingSpaces |-> FALSE]

createSpaceFulfilled(task, spaceId) ==
  /\ resume
  /\ last' = <<"createSpaceFulfilled", task, spaceId>>
  /\ task \in pending("createSpace")
  /\ Len(state.spaces) < MaxSpaces
  /\ commit(set(state, createSpaceSuccess(state,
                         [id |-> spaceId, name |-> task.name])))
  /\ settle(task)
  /\ outcome' = "returned"

\* Mutant of createSpaceRejected: the failure is recorded and not re-raised.
createSpaceRejectedSwallows(task, thrown) ==
  /\ resume
  /\ last' = <<"createSpaceRejected", task, thrown, state.error>>
  /\ task \in pending("createSpace")
  /\ commit(set(state, [isLoadingSpaces |-> FALSE,
                        error |-> errorMessage(thrown, "Failed to create space")]))
  /\ settle(task)
  /\ outcome' = "returned"

\* createSpace, the catch block (lines 199-205)
createSpaceRejected(task, thrown) ==
  /\ resume
  /\ last' = <<"createSpaceRejected", task, thrown, state.error>>
  /\ task \in pending("createSpace")
  /\ commit(set(state, [isLoadingSpaces |-> FALSE,
                        error |-> errorMessage(thrown, "Failed to create space")]))
  /\ settle(task)
  /\ outcome' = "raised"

\* deleteSpace, up to the provider call (line 209)
deleteSpace(spaceId) ==
  /\ call
  /\ last' = <<"deleteSpace", spaceId, state.error>>
  /\ canStart
  /\ commit(set(state, [isLoadingSpaces |-> TRUE, error |-> NULL]))
  /\ start([op |-> "deleteSpace", spaceId |-> spaceId])
  /\ outcome' = "pending"

\* Mutant of deleteSpaceSuccess: the contents of the deleted space are kept.
deleteSpaceSuccessKeepsContents(s, spaceId) ==
  LET newSpaces == filterOut(s.spaces, spaceId)
  IN [spaces |-> newSpaces,
      selectedSpace |-> IF s.selectedSpace # NULL /\ s.selectedSpace.id = spaceId
                          THEN NULL ELSE s.selectedSpace,
      isLoadingSpaces |-> FALSE]

\* deleteSpace, the updater run when the provider answers (lines 216-226)
deleteSpaceSuccess(s, spaceId) ==
  LET newSpaces == filterOut(s.spaces, spaceId)
      newContents == withoutKey(s.spaceContents, spaceId)
  IN [spaces |-> newSpaces,
      selectedSpace |-> IF s.selectedSpace # NULL /\ s.selectedSpace.id = spaceId
                          THEN NULL ELSE s.selectedSpace,
      spaceContents |-> newContents,
      isLoadingSpaces |-> FALSE]

deleteSpaceFulfilled(task) ==
  /\ resume
  /\ last' = <<"deleteSpaceFulfilled", task>>
  /\ task \in pending("deleteSpace")
  /\ commit(set(state, deleteSpaceSuccess(state, task.spaceId)))
  /\ settle(task)
  /\ outcome' = "returned"

\* Mutant of deleteSpaceFailure: a failed deletion drops the selection.
deleteSpaceFailureDeselects(thrown) ==
  [selectedSpace |-> NULL,
   isLoadingSpaces |-> FALSE,
   error |-> errorMessage(thrown, "Failed to delete space")]

\* deleteSpace, the state set in the catch block (lines 228-231)
deleteSpaceFailure(thrown) ==
  [isLoadingSpaces |-> FALSE,
   error |-> errorMessage(thrown, "Failed to delete space")]

\* deleteSpace, the catch block (lines 227-233)
deleteSpaceRejected(task, thrown) ==
  /\ resume
  /\ last' = <<"deleteSpaceRejected", task, thrown, state.error>>
  /\ task \in pending("deleteSpace")
  /\ commit(set(state, deleteSpaceFailure(thrown)))
  /\ settle(task)
  /\ outcome' = "raised"

----------------------------------------------------------------------------
(* Space contents actions *)

\* Mutant of fetchSpaceContentsBegin: a recorded error is kept.
fetchSpaceContentsBeginKeepsError(s) == set(s, [isLoadingContents |-> TRUE])

\* fetchSpaceContents, up to the provider call (line 246): the state it leaves.
fetchSpaceContentsBegin(s) == set(s, [isLoadingContents |-> TRUE, error |-> NULL])

fetchSpaceContentsTask(spaceId) == [op |-> "fetchSpaceContents", spaceId |-> spaceId]

fetchSpaceContents(spaceId) ==
  /\ call
  /\ last' = <<"fetchSpaceContents", spaceId, state.error>>
  /\ canStart
  /\ commit(fetchSpaceContentsBegin(state))
  /\ start(fetchSpaceContentsTask(spaceId))
  /\ outcome' = "pending"

\* Mutant of fetchSpaceContentsSuccess: the listing replaces the whole map.
fetchSpaceContentsSuccessReplacesMap(s, spaceId, contents) ==
  [spaceContents |-> withKey(EmptyContents, spaceId, contents),
   isLoadingContents |-> FALSE]

\* fetchSpaceContents, the updater run when the provider answers (lines 256-262)
fetchSpaceContentsSuccess(s, spaceId, contents) ==
  [spaceContents |-> withKey(s.spaceContents, spaceId, contents),
   isLoadingContents |-> FALSE]

fetchSpaceContentsFulfilled(task, contents) ==
  /\ resume
  /\ last' = <<"fetchSpaceContentsFulfilled", task, contents>>
  /\ task \in pending("fetchSpaceContents")
  /\ commit(set(state, fetchSpaceContentsSuccess(state, task.spaceId, contents)))
  /\ settle(task)
  /\ outcome' = "returned"

\* Mutant of fetchSpaceContentsFailure: a failed listing empties the map.
fetchSpaceContentsFailureClearsContents(thrown) ==
  [spaceContents |-> EmptyContents,
   isLoadingContents |-> FALSE,
   error |-> errorMessage(thrown, "Failed to fetch space contents")]

\* fetchSpaceContents, the state set in the catch block (lines 264-267)
fetchSpaceContentsFailure(thrown) ==
  [isLoadingContents |-> FALSE,
   error |-> errorMessage(thrown, "Failed to fetch space contents")]

\* fetchSpaceContents, the catch block (lines 263-268): recorded, not re-raised
fetchSpaceContentsRejected(task, thrown) ==
  /\ resume
  /\ last' = <<"fetchSpaceContentsRejected", task, thrown, state.error>>
  /\ task \in pending("fetchSpaceContents")
  /\ commit(set(state, fetchSpaceContentsFailure(thrown)))
  /\ settle(task)
  /\ outcome' = "returned"

\* Mutant of selectSpace: the space is selected and no listing is started.
selectSpaceNoFetch(space) ==
  /\ call
  /\ last' = <<"selectSpace", space>>
  /\ commit(set(state, [selectedSpace |-> space]))
  /\ UNCHANGED inflight
  /\ outcome' = "returned"

\* selectSpace (lines 236-242): the set, and for a non-null space the
\* synchronous part of the fetchSpaceContents call it does not await.
selectSpace(space) ==
  /\ call
  /\ last' = <<"selectSpace", space>>
  /\ LET selected == set(state, [selectedSpace |-> space])
     IN IF space = NULL
          THEN /\ commit(selected)
               /\ UNCHANGED inflight
               /\ outcome' = "returned"
          ELSE /\ canStart
               /\ commit(fetchSpaceContentsBegin(selected))
               /\ start(fetchSpaceContentsTask(space.id))
               /\ outcome' = "returned"

\* uploadToSpace, up to the provider call (line 272)
uploadToSpace(spaceId, file) ==
  /\ call
  /\ last' = <<"uploadToSpace", spaceId, file, state.error>>
  /\ canStart
  /\ commit(set(state, [isLoadingContents |-> TRUE, error |-> NULL]))
  /\ start([op |-> "uploadToSpace", spaceId |-> spaceId, file |-> file])
  /\ outcome' = "pending"

\* Mutant of uploadToSpaceSuccess: the new record replaces the list.
uploadToSpaceSuccessOverwrites(s, spaceId, newContent) ==
  [spaceContents |-> withKey(s.spaceContents, spaceId, <<newContent>>),
   isLoadingContents |-> FALSE]

\* uploadToSpace, the updater run when the provider answers (lines 280-293)
uploadToSpaceSuccess(s, spaceId, newContent) ==
  [spaceContents |-> withKey(s.spaceContents, spaceId,
                             Append(contentsOf(s.spaceContents, spaceId), newContent)),
   isLoadingContents |-> FALSE]

uploadToSpaceFulfilled(task, contentId) ==
  /\ resume
  /\ last' = <<"uploadToSpaceFulfilled", task, contentId>>
  /\ task \in pending("uploadToSpace")
  /\ Len(contentsOf(state.spaceContents, task.spaceId)) < MaxContents
  /\ commit(set(state, uploadToSpaceSuccess(state, task.spaceId,
                         [id |-> contentId, name |-> task.file.name,
                          size |-> task.file.size, type |-> task.file.type])))
  /\ settle(task)
  /\ outcome' = "returned"

\* uploadToSpace, the catch block (lines 294-300)
uploadToSpaceRejected(task, thrown) ==
  /\ resume
  /\ last' = <<"uploadToSpaceRejected", task, thrown, state.error>>
  /\ task \in pending("uploadToSpace")
  /\ commit(set(state, [isLoadingContents |-> FALSE,
                        error |-> errorMessage(thrown, "Failed to upload file")]))
  /\ settle(task)
  /\ outcome' = "raised"

\* deleteFromSpace, up to the provider call (line 304)
deleteFromSpace(spaceId, contentId) ==
  /\ call
  /\ last' = <<"deleteFromSpace", spaceId, contentId, state.error>>
  /\ canStart
  /\ commit(set(state, [isLoadingContents |-> TRUE, error |-> NULL]))
  /\ start([op |-> "deleteFromSpace", spaceId |-> spaceId, contentId |-> contentId])
  /\ outcome' = "pending"

\* Mutant of deleteFromSpaceSuccess: the whole list of the space is emptied.
deleteFromSpaceSuccessClearsList(s, spaceId, contentId) ==
  [spaceContents |-> withKey(s.spaceContents, spaceId, <<>>),
   isLoadingContents |-> FALSE]

\* deleteFromSpace, the updater run when the provider answers (lines 311-319)
deleteFromSpaceSuccess(s, spaceId, contentId) ==
  [spaceContents |-> withKey(s.spaceContents, spaceId,
                             filterOut(contentsOf(s.spaceContents, spaceId), contentId)),
   isLoadingContents |-> FALSE]

deleteFromSpaceFulfilled(task) ==
  /\ resume
  /\ last' = <<"deleteFromSpaceFulfilled", task>>
  /\ task \in pending("deleteFromSpace")
  /\ commit(set(state, deleteFromSpaceSuccess(state, task.spaceId, task.contentId)))
  /\ settle(task)
  /\ outcome' = "returned"

\* deleteFromSpace, the catch block (lines 320-326)
deleteFromSpaceRejected(task, thrown) ==
  /\ resume
  /\ last' = <<"deleteFromSpaceRejected", task, thrown, state.error>>
  /\ task \in pending("deleteFromSpace")
  /\ commit(set(state, [isLoadingContents |-> FALSE,
                        error |-> errorMessage(thrown, "Failed to delete content")]))
  /\ settle(task)
  /\ outcome' = "raised"

----------------------------------------------------------------------------
(* Utility actions *)

\* Mutant of clearError: the loading flags are cleared with the error.
clearErrorStopsLoading ==
  /\ call
  /\ last' = <<"clearError", state.error>>
  /\ commit(set(state, [error |-> NULL, isLoading |-> FALSE,
                        isLoadingSpaces |-> FALSE, isLoadingContents |-> FALSE]))
  /\ UNCHANGED inflight
  /\ outcome' = "returned"

\* clearError (lines 330-332)
clearError ==
  /\ call
  /\ last' = <<"clearError", state.error>>
  /\ commit(set(state, [error |-> NULL]))
  /\ UNCHANGED inflight
  /\ outcome' = "returned"

\* Mutant of reset: only the session is cleared, as logout does.
resetAsLogout ==
  /\ call
  /\ last' = <<"reset">>
  /\ commit(set(state, logoutUpdate))
  /\ UNCHANGED inflight
  /\ outcome' = "returned"

\* reset (lines 334-336): the calls in flight are not cancelled
reset ==
  /\ call
  /\ last' = <<"reset">>
  /\ commit(set(state, initialState))
  /\ UNCHANGED inflight
  /\ outcome' = "returned"

\* Mutant of reload: the in-memory state survives the reload.
reloadKeepsMemory ==
  /\ call
  /\ last' = <<"reload", [error |-> state.error,
                         isLoading |-> state.isLoading,
                         isLoadingSpaces |-> state.isLoadingSpaces,
                         isLoadingContents |-> state.isLoadingContents]>>
  /\ commit(state)
  /\ inflight' = EmptyBag
  /\ outcome' = "returned"

\* A page reload: the store is created again from initialState and the
\* persist middleware merges the stored record over it; the promises of the
\* previous page are gone.
reload ==
  /\ call
  /\ last' = <<"reload", [error |-> state.error,
                         isLoading |-> state.isLoading,
                         isLoadingSpaces |-> state.isLoadingSpaces,
                         isLoadingContents |-> state.isLoadingContents]>>
  /\ commit(set(initialState, persisted))
  /\ inflight' = EmptyBag
  /\ outcome' = "returned"

----------------------------------------------------------------------------
(* The specification *)

Tasks == BagToSet(inflight)

\* The steps of one page session in which the provider answers every listing
\* of contents successfully.
SessionNext ==
  \/ \E email \in Emails : login(email)
  \/ \E task \in Tasks, account \in StorachaAccount : loginFulfilled(task, account)
  \/ \E task \in Tasks, thrown \in Thrown : loginRejected(task, thrown)
  \/ logout
  \/ \E accountId \in AccountIds : switchAccount(accountId)
  \/ \E account \in StorachaAccount : addAccount(account)
  \/ \E accountId \in AccountIds : removeAccount(accountId)
  \/ fetchSpaces
  \/ \E task \in Tasks, spaces \in SpaceListings : fetchSpacesFulfilled(task, spaces)
  \/ \E task \in Tasks, thrown \in Thrown : fetchSpacesRejected(task, thrown)
  \/ \E name \in SpaceNames : createSpace(name)
  \/ \E task \in Tasks, spaceId \in SpaceIds : createSpaceFulfilled(task, spaceId)
  \/ \E task \in Tasks, thrown \in Thrown : createSpaceRejected(task, thrown)
  \/ \E spaceId \in SpaceIds : deleteSpace(spaceId)
  \/ \E task \in Tasks : deleteSpaceFulfilled(task)
  \/ \E task \in Tasks, thrown \in Thrown : deleteSpaceRejected(task, thrown)
  \/ \E space \in StorachaSpace \cup {NULL} : selectSpace(space)
  \/ \E spaceId \in SpaceIds : fetchSpaceContents(spaceId)
  \/ \E task \in Tasks, contents \in ContentListings :
       fetchSpaceContentsFulfilled(task, contents)
  \/ \E spaceId \in SpaceIds, file \in Files : uploadToSpace(spaceId, file)
  \/ \E task \in Tasks, contentId \in ContentIds : uploadToSpaceFulfilled(task, contentId)
  \/ \E task \in Tasks, thrown \in Thrown : uploadToSpaceRejected(task, thrown)
  \/ \E spaceId \in SpaceIds, contentId \in ContentIds : deleteFromSpace(spaceId, contentId)
  \/ \E task \in Tasks : deleteFromSpaceFulfilled(task)
  \/ \E task \in Tasks, thrown \in Thrown : deleteFromSpaceRejected(task, thrown)
  \/ clearError
  \/ reset

Next ==
  \/ SessionNext
  \/ \E task \in Tasks, thrown \in Thrown : fetchSpaceContentsRejected(task, thrown)
  \/ reload

Spec == Init /\ [][Next]_vars

\* One page session with a provider that answers every listing of contents:
\* a pending fetchSpaceContents promise is eventually resolved by the event
\* loop (weak fairness on its fulfilment).
LiveSpec ==
  /\ Init
  /\ [][SessionNext]_vars
  /\ \A spaceId \in SpaceIds :
       WF_vars(\E contents \in ContentListings :
                 fetchSpaceContentsFulfilled(fetchSpaceContentsTask(spaceId), contents))

\* The scenario login -> createSpace(n) -> selectSpace(the created space)
\* -> uploadToSpace(its id, f): the caller awaits login and createSpace, does
\* not wait for the listing selectSpace starts, and the provider, which
\* answers every call successfully, lists the new space as it was before the
\* upload (empty) or as it is after it.
Scenario == <<"login", "createSpace", "selectSpace", "uploadToSpace">>

ScenarioCalls == Len(Scenario)

ScenarioInit ==
  /\ state = initialState
  /\ persisted = partialize(initialState)
  /\ inflight = EmptyBag
  /\ last = <<"create">>
  /\ outcome = "returned"
  /\ calls = 0
  /\ budget = ScenarioCalls

ScenarioNext ==
  \/ calls = 0 /\ \E email \in Emails : login(email)
  \/ \E task \in Tasks, account \in StorachaAccount : loginFulfilled(task, account)
  \/ /\ calls = 1
     /\ pending("login") = {}
     /\ \E name \in SpaceNames : createSpace(name)
  \/ \E task \in Tasks, spaceId \in SpaceIds : createSpaceFulfilled(task, spaceId)
  \/ /\ calls = 2
     /\ pending("createSpace") = {}
     /\ selectSpace(state.spaces[Len(state.spaces)])
  \/ /\ calls = 3
     /\ \E file \in Files : uploadToSpace(state.selectedSpace.id, file)
  \/ \E task \in pending("fetchSpaceContents") :
       \E contents \in {<<>>, contentsOf(state.spaceContents, task.spaceId)} :
         fetchSpaceContentsFulfilled(task, contents)
  \/ \E task \in Tasks, contentId \in ContentIds : uploadToSpaceFulfilled(task, contentId)

ScenarioSpec == ScenarioInit /\ [][ScenarioNext]_vars

\* Overlapping appends: after an awaited login the caller starts two
\* createSpace calls without awaiting the first, waits for both, then starts
\* two uploadToSpace calls on one space without awaiting the first; the
\* provider answers every call successfully, in any order.
Overlap == <<"login", "createSpace", "createSpace", "uploadToSpace", "uploadToSpace">>

OverlapCalls == Len(Overlap)

OverlapNames == <<"Team", "Docs">>

OverlapFiles ==
  <<[name |-> "doc.txt", size |-> 10, type |-> "text/plain"],
    [name |-> "img.png", size |-> 20, type |-> "image/png"]>>

OverlapInit ==
  /\ state = initialState
  /\ persisted = partialize(initialState)
  /\ inflight = EmptyBag
  /\ last = <<"create">>
  /\ outcome = "returned"
  /\ calls = 0
  /\ budget = OverlapCalls

OverlapNext ==
  \/ calls = 0 /\ \E email \in Emails : login(email)
  \/ \E task \in Tasks, account \in StorachaAccount : loginFulfilled(task, account)
  \/ /\ calls = 1
     /\ pending("login") = {}
     /\ createSpace(OverlapNames[1])
  \/ /\ calls = 2
     /\ pending("createSpace") # {}
     /\ createSpace(OverlapNames[2])
  \/ \E task \in Tasks, spaceId \in SpaceIds : createSpaceFulfilled(task, spaceId)
  \/ /\ calls = 3
     /\ pending("createSpace") = {}
     /\ \E spaceId \in SpaceIds : uploadToSpace(spaceId, OverlapFiles[1])
  \/ /\ calls = 4
     /\ \E task \in pending("uploadToSpace") :
          uploadToSpace(task.spaceId, OverlapFiles[2])
  \/ \E task \in Tasks, contentId \in ContentIds : uploadToSpaceFulfilled(task, contentId)

OverlapSpec == OverlapInit /\ [][OverlapNext]_vars

----------------------------------------------------------------------------
(* Properties *)

\* C1: in every reachable state, whatever handlers, provider answers and
\* reloads led to it, isAuthenticated is true iff currentAccount is non-null.
C1_AuthIffCurrentAccount ==
  state.isAuthenticated <=> (state.currentAccount # NULL)

\* C1 is exercised: a reload has restored an authenticated session.
C1_Witness ==
  /\ last[1] = "reload"
  /\ state.isAuthenticated
  /\ state.currentAccount # NULL

\* C2: in every reachable state the accounts list holds at most one entry per
\* account identifier.
C2_UniqueAccountIds ==
  \A i, j \in 1..Len(state.accounts) :
    state.accounts[i].id = state.accounts[j].id => i = j

\* C2 is exercised: a login answered with an identifier already in the list
\* (under another email) and the list still has the single earlier entry.
C2_Witness ==
  /\ last[1] = "loginFulfilled"
  /\ Len(state.accounts) = 1
  /\ state.accounts[1].id = state.currentAccount.id
  /\ state.accounts[1] # state.currentAccount

\* C3: addAccount(a) leaves the whole state unchanged when an account with
\* a.id is already listed (the listed record is kept); otherwise it appends a
\* at the end of accounts and changes no other field.  It starts no provider
\* call and returns.
C3_AddAccountIdempotent ==
  [][last'[1] = "addAccount" =>
       LET a == last'[2]
           known == \E i \in 1..Len(state.accounts) : state.accounts[i].id = a.id
       IN /\ state' = IF known THEN state
                      ELSE [state EXCEPT !.accounts = Append(@, a)]
          /\ inflight' = inflight
          /\ outcome' = "returned"]_vars

\* C3 is exercised: addAccount was called with an account whose identifier is
\* listed under a different email.
C3_Witness ==
  /\ last[1] = "addAccount"
  /\ \E i \in 1..Len(state.accounts) :
       /\ state.accounts[i].id = last[2].id
       /\ state.accounts[i].email # last[2].email

\* C4: when login succeeds with provider account A, currentAccount = A,
\* isAuthenticated = true, isLoading = false, error = null, and accounts is
\* the prior list if it held an entry with A.id, else the prior list with A
\* appended.
C4_LoginSuccess ==
  [][last'[1] = "loginFulfilled" =>
       LET A == last'[3]
           known == \E i \in 1..Len(state.accounts) : state.accounts[i].id = A.id
       IN /\ state'.currentAccount = A
          /\ state'.isAuthenticated = TRUE
          /\ state'.isLoading = FALSE
          /\ state'.error = NULL
          /\ state'.accounts = IF known THEN state.accounts
                               ELSE Append(state.accounts, A)]_vars

\* C4 is exercised: a login succeeded and its account was appended behind an
\* account already listed.
C4_Witness ==
  /\ last[1] = "loginFulfilled"
  /\ Len(state.accounts) = 2
  /\ state.accounts[2] = last[3]
  /\ state.currentAccount = last[3]

\* C5 as claimed: after any login completes, exactly one of {currentAccount
\* non-null, error non-null} holds, and isLoading is false.
C5_ExactlyOneOfAccountOrError ==
  last[1] \in {"loginFulfilled", "loginRejected"} =>
    /\ (state.currentAccount # NULL) # (state.error # NULL)
    /\ state.isLoading = FALSE

\* C5 as amended: after a login completes isLoading is false; on success
\* currentAccount is non-null and error is null; on provider failure error is
\* non-null, the failure is re-raised and currentAccount is left as it was.
C5_LoginCompletion ==
  [][/\ last'[1] = "loginFulfilled" =>
          /\ state'.currentAccount # NULL
          /\ state'.error = NULL
          /\ state'.isLoading = FALSE
     /\ last'[1] = "loginRejected" =>
          /\ state'.error # NULL
          /\ state'.currentAccount = state.currentAccount
          /\ state'.isLoading = FALSE
          /\ outcome' = "raised"]_vars

\* C5 is exercised: a login failed while an account was current, so both the
\* current account and the error are set.
C5_Witness ==
  /\ last[1] = "loginRejected"
  /\ state.currentAccount # NULL
  /\ state.error # NULL

\* C6: logout sets currentAccount to null, isAuthenticated to false,
\* selectedSpace to null, spaces and spaceContents to empty, and leaves
\* accounts, error and the three loading flags exactly as they were.
C6_LogoutFrame ==
  [][last'[1] = "logout" =>
       state' = [state EXCEPT !.currentAccount = NULL,
                              !.isAuthenticated = FALSE,
                              !.selectedSpace = NULL,
                              !.spaces = <<>>,
                              !.spaceContents = <<>>]]_vars

\* C6 is exercised: logout ran while accounts were known and an error was
\* recorded, and both are still there.
C6_Witness ==
  /\ last[1] = "logout"
  /\ state.currentAccount = NULL
  /\ Len(state.accounts) > 0
  /\ state.error # NULL

\* C7: switchAccount(id) with no account of that identifier listed sets error
\* to 'Account not found' and changes no other field; no space listing is
\* started and the call returns without raising.
C7_SwitchAccountAbsent ==
  [][(/\ last'[1] = "switchAccount"
      /\ ~ \E i \in 1..Len(state.accounts) : state.accounts[i].id = last'[2]) =>
       /\ state' = [state EXCEPT !.error = Message("Account not found")]
       /\ inflight' = inflight
       /\ outcome' = "returned"]_vars

\* C7 is exercised: switchAccount was called with an unknown identifier while
\* another account was current.
C7_Witness ==
  /\ last[1] = "switchAccount"
  /\ ~ \E i \in 1..Len(state.accounts) : state.accounts[i].id = last[2]
  /\ state.currentAccount # NULL
  /\ state.error = Message("Account not found")

\* C8: switchAccount(id) with id listed makes, in the one step of the call,
\* that account current and authenticated with selectedSpace null and spaces
\* and spaceContents empty, and has then started the space listing for the new
\* account (loading flag set, call pending); when that listing is fulfilled
\* as the very next step, spaces is the provider's listing and
\* isLoadingSpaces is false.
C8_SwitchAccountPresent ==
  [][/\ (/\ last'[1] = "switchAccount"
         /\ \E i \in 1..Len(state.accounts) : state.accounts[i].id = last'[2]) =>
          LET i == CHOOSE i \in 1..Len(state.accounts) :
                     /\ state.accounts[i].id = last'[2]
                     /\ \A j \in 1..(i - 1) : state.accounts[j].id # last'[2]
              account == state.accounts[i]
          IN /\ state'.currentAccount = account
             /\ state'.isAuthenticated = TRUE
             /\ state'.selectedSpace = NULL
             /\ state'.spaces = <<>>
             /\ state'.spaceContents = <<>>
             /\ state'.isLoadingSpaces = TRUE
             /\ inflight' = inflight (+)
                  SetToBag({[op |-> "fetchSpaces", account |-> account,
                              awaitedBy |-> "switchAccount"]})
             /\ outcome' = "pending"
     /\ (/\ last[1] = "switchAccount"
         /\ state.currentAccount # NULL
         /\ state.currentAccount.id = last[2]
         /\ last'[1] = "fetchSpacesFulfilled"
         /\ last'[2].account = state.currentAccount) =>
          /\ state'.spaces = last'[3]
          /\ state'.isLoadingSpaces = FALSE
          /\ state'.currentAccount = state.currentAccount
          /\ outcome' = "returned"]_vars

\* C8 is exercised: switchAccount has made a listed account current and its
\* space listing is in flight.
C8_Witness ==
  /\ last[1] = "switchAccount"
  /\ state.currentAccount # NULL
  /\ state.currentAccount.id = last[2]
  /\ state.isLoadingSpaces
  /\ [op |-> "fetchSpaces", account |-> state.currentAccount,
      awaitedBy |-> "switchAccount"] \in BagToSet(inflight)

\* C9: removeAccount(id) with id the current account's identifier leaves no
\* entry with that id in accounts and clears the session: currentAccount
\* null, isAuthenticated false, selectedSpace null, spaces and spaceContents
\* empty.
C9_RemoveCurrentAccount ==
  [][(/\ last'[1] = "removeAccount"
      /\ state.currentAccount # NULL
      /\ state.currentAccount.id = last'[2]) =>
       /\ ~ \E i \in 1..Len(state'.accounts) : state'.accounts[i].id = last'[2]
       /\ state'.currentAccount = NULL
       /\ state'.isAuthenticated = FALSE
       /\ state'.selectedSpace = NULL
       /\ state'.spaces = <<>>
       /\ state'.spaceContents = <<>>]_vars

\* C9 is exercised: the current account was removed while another account
\* stays listed.
C9_Witness ==
  /\ last[1] = "removeAccount"
  /\ last[3] = TRUE
  /\ state.currentAccount = NULL
  /\ Len(state.accounts) = 1
  /\ state.accounts[1].id # last[2]

\* C10: removeAccount(id) with id not the current account's identifier only
\* takes the entries with that id out of accounts, the others keeping their
\* order; every other field is unchanged.
C10_RemoveOtherAccount ==
  [][(/\ last'[1] = "removeAccount"
      /\ ~ (state.currentAccount # NULL /\ state.currentAccount.id = last'[2])) =>
       state' = [state EXCEPT
                   !.accounts = SelectSeq(@, LAMBDA a : a.id # last'[2])]]_vars

\* C10 is exercised: an account other than the current one was removed and
\* the session is still there.
C10_Witness ==
  /\ last[1] = "removeAccount"
  /\ last[3] = FALSE
  /\ state.currentAccount # NULL
  /\ state.currentAccount.id # last[2]
  /\ state.isAuthenticated
  /\ Len(state.accounts) = 1

\* C11: fetchSpaces() and createSpace(name) called while currentAccount is
\* null record 'No account selected' and change no other field (spaces and
\* isLoadingSpaces included); no provider call is started and the call
\* returns without raising.
C11_NoAccountGuard ==
  [][(/\ last'[1] \in {"fetchSpaces", "createSpace"}
      /\ state.currentAccount = NULL) =>
       /\ state' = [state EXCEPT !.error = Message("No account selected")]
       /\ inflight' = inflight
       /\ outcome' = "returned"]_vars

\* C11 is exercised: createSpace was called with no current account while a
\* space operation was already loading, and only the error was recorded.
C11_Witness ==
  /\ last[1] = "createSpace"
  /\ state.currentAccount = NULL
  /\ state.error = Message("No account selected")
  /\ state.isLoadingSpaces
  /\ pending("createSpace") = {}

\* C12: when the provider answers a fetchSpaces call, spaces is exactly the
\* provider's listing and isLoadingSpaces is false; when the provider fails,
\* isLoadingSpaces is false, error is non-null, spaces keeps its value, and
\* the call returns without raising.
C12_FetchSpacesCompletion ==
  [][/\ last'[1] = "fetchSpacesFulfilled" =>
          /\ state'.spaces = last'[3]
          /\ state'.isLoadingSpaces = FALSE
          /\ outcome' = "returned"
     /\ last'[1] = "fetchSpacesRejected" =>
          /\ state'.spaces = state.spaces
          /\ state'.isLoadingSpaces = FALSE
          /\ state'.error # NULL
          /\ outcome' = "returned"]_vars

\* C12 is exercised: a listing failed while spaces were listed, and they are
\* still there beside the error.
C12_Witness ==
  /\ last[1] = "fetchSpacesRejected"
  /\ Len(state.spaces) > 0
  /\ state.error # NULL
  /\ ~state.isLoadingSpaces

\* C13: when the provider answers a createSpace(name) call, the space it
\* returns, carrying name, is appended at the end of the spaces list current
\* at that moment and isLoadingSpaces is false; when the provider fails,
\* spaces is unchanged, error is non-null, isLoadingSpaces is false and the
\* failure is re-raised.
C13_CreateSpaceCompletion ==
  [][/\ last'[1] = "createSpaceFulfilled" =>
          /\ state'.spaces =
               Append(state.spaces, [id |-> last'[3], name |-> last'[2].name])
          /\ state'.isLoadingSpaces = FALSE
          /\ outcome' = "returned"
     /\ last'[1] = "createSpaceRejected" =>
          /\ state'.spaces = state.spaces
          /\ state'.isLoadingSpaces = FALSE
          /\ state'.error # NULL
          /\ outcome' = "raised"]_vars

\* C13 is exercised: a created space was appended behind a space already in
\* the list.
C13_Witness ==
  /\ last[1] = "createSpaceFulfilled"
  /\ Len(state.spaces) = 2
  /\ state.spaces[2] = [id |-> last[3], name |-> last[2].name]
  /\ state.spaces[1].id # last[3]

\* C14: when deleteSpace(id) succeeds, spaces is the prior list without the
\* entries of identifier id, spaceContents has lost the key id and kept every
\* other key with its list, and selectedSpace is null if the selected space
\* had identifier id and otherwise unchanged.
C14_DeleteSpaceSuccess ==
  [][last'[1] = "deleteSpaceFulfilled" =>
       LET id == last'[2].spaceId
       IN /\ state'.spaces = SelectSeq(state.spaces, LAMBDA sp : sp.id # id)
          /\ DOMAIN state'.spaceContents = (DOMAIN state.spaceContents) \ {id}
          /\ \A k \in DOMAIN state'.spaceContents :
               state'.spaceContents[k] = state.spaceContents[k]
          /\ state'.selectedSpace =
               IF state.selectedSpace # NULL /\ state.selectedSpace.id = id
                 THEN NULL ELSE state.selectedSpace]_vars

\* C14 is exercised: a space was deleted while another space was selected
\* and had contents; selection and contents of that other space are kept.
C14_Witness ==
  /\ last[1] = "deleteSpaceFulfilled"
  /\ state.selectedSpace # NULL
  /\ state.selectedSpace.id # last[2].spaceId
  /\ state.selectedSpace.id \in DOMAIN state.spaceContents
  /\ last[2].spaceId \notin DOMAIN state.spaceContents

\* C15: a deleteSpace(id) call whose provider call fails changes, when it
\* starts, only isLoadingSpaces and error, and when it fails leaves spaces,
\* selectedSpace and spaceContents as they are, sets error to a non-null
\* message and isLoadingSpaces to false, and re-raises the failure.
C15_DeleteSpaceFailure ==
  [][/\ last'[1] = "deleteSpace" =>
          state' = [state EXCEPT !.isLoadingSpaces = TRUE, !.error = NULL]
     /\ last'[1] = "deleteSpaceRejected" =>
          /\ state'.spaces = state.spaces
          /\ state'.selectedSpace = state.selectedSpace
          /\ state'.spaceContents = state.spaceContents
          /\ state'.error # NULL
          /\ state'.isLoadingSpaces = FALSE
          /\ outcome' = "raised"]_vars

\* C15 is exercised: the deletion of the selected space failed; the space is
\* still selected and the error is recorded.
C15_Witness ==
  /\ last[1] = "deleteSpaceRejected"
  /\ state.selectedSpace # NULL
  /\ state.selectedSpace.id = last[2].spaceId
  /\ state.error # NULL
  /\ ~state.isLoadingSpaces

\* C16: selectSpace(s) with a non-null s sets selectedSpace to s in the same
\* step and starts one fetchSpaceContents(s.id) provider call by itself;
\* selectSpace(null) sets selectedSpace to null and starts no call; and when
\* pending listings are eventually answered successfully, a selectSpace(s)
\* is eventually followed by a state in which spaceContents[s.id] holds the
\* listing the provider gave for s.id.
C16_SelectSpaceFetches ==
  /\ [][last'[1] = "selectSpace" =>
          /\ state'.selectedSpace = last'[2]
          /\ outcome' = "returned"
          /\ IF last'[2] = NULL
               THEN inflight' = inflight
               ELSE inflight' = inflight (+) SetToBag({fetchSpaceContentsTask(last'[2].id)})]_vars
  /\ \A s \in StorachaSpace :
       (last = <<"selectSpace", s>>) ~>
         (/\ last[1] = "fetchSpaceContentsFulfilled"
          /\ last[2].spaceId = s.id
          /\ s.id \in DOMAIN state.spaceContents
          /\ state.spaceContents[s.id] = last[3])

\* C16 is exercised: the only call made was a selectSpace, and the listing it
\* started has been answered and stored under the selected space's id.
C16_Witness ==
  /\ calls = 1
  /\ last[1] = "fetchSpaceContentsFulfilled"
  /\ state.selectedSpace # NULL
  /\ state.selectedSpace.id = last[2].spaceId
  /\ state.selectedSpace.id \in DOMAIN state.spaceContents
  /\ state.spaceContents[state.selectedSpace.id] = last[3]
  /\ Len(last[3]) > 0

\* C17: selectSpace(s) returns without raising with selectedSpace = s and
\* spaceContents untouched, and a failure of a content listing is not raised:
\* it leaves spaceContents as it is (the key of s at its prior list, or
\* absent), sets error to a non-null message and isLoadingContents to false.
C17_SelectSpaceFetchFailure ==
  [][/\ (last'[1] = "selectSpace" /\ last'[2] # NULL) =>
          /\ outcome' = "returned"
          /\ state'.selectedSpace = last'[2]
          /\ state'.spaceContents = state.spaceContents
     /\ last'[1] = "fetchSpaceContentsRejected" =>
          /\ outcome' = "returned"
          /\ state'.spaceContents = state.spaceContents
          /\ state'.selectedSpace = state.selectedSpace
          /\ state'.error # NULL
          /\ state'.isLoadingContents = FALSE]_vars

\* C17 is exercised: the only call made was a selectSpace, the listing it
\* started failed, the space is still selected, its key is absent and the
\* error is recorded.
C17_Witness ==
  /\ calls = 1
  /\ last[1] = "fetchSpaceContentsRejected"
  /\ state.selectedSpace # NULL
  /\ state.selectedSpace.id = last[2].spaceId
  /\ state.selectedSpace.id \notin DOMAIN state.spaceContents
  /\ state.error # NULL
  /\ ~state.isLoadingContents
  /\ outcome = "returned"

\* C18: a successful fetchSpaceContents(spaceId) changes only the entry of
\* spaceId in spaceContents, which becomes the provider's listing, and
\* isLoadingContents, which becomes false; every other key keeps its list and
\* every other field of the state is unchanged.
C18_FetchSpaceContentsFrame ==
  [][last'[1] = "fetchSpaceContentsFulfilled" =>
       LET id == last'[2].spaceId
       IN /\ DOMAIN state'.spaceContents = (DOMAIN state.spaceContents) \cup {id}
          /\ state'.spaceContents[id] = last'[3]
          /\ \A k \in (DOMAIN state.spaceContents) \ {id} :
               state'.spaceContents[k] = state.spaceContents[k]
          /\ state'.isLoadingContents = FALSE
          /\ state' = [state EXCEPT !.spaceContents = state'.spaceContents,
                                    !.isLoadingContents = FALSE]]_vars

\* C18 is exercised: a listing was stored for one space while another space
\* had a non-empty list, which is still there.
C18_Witness ==
  /\ last[1] = "fetchSpaceContentsFulfilled"
  /\ \E k \in DOMAIN state.spaceContents :
       /\ k # last[2].spaceId
       /\ Len(state.spaceContents[k]) > 0
  /\ state.spaceContents[last[2].spaceId] = last[3]

\* C19: when uploadToSpace(spaceId, file) succeeds, the list of spaceId (the
\* empty list if the key was absent) gains at its end exactly one record,
\* with the provider's id and the file's name, size and type, and the other
\* keys keep their lists; when it fails, spaceContents is unchanged, error is
\* non-null, isLoadingContents is false and the failure is re-raised.
C19_UploadToSpaceCompletion ==
  [][/\ last'[1] = "uploadToSpaceFulfilled" =>
          LET id == last'[2].spaceId
              file == last'[2].file
              prior == IF id \in DOMAIN state.spaceContents
                         THEN state.spaceContents[id] ELSE <<>>
          IN /\ DOMAIN state'.spaceContents = (DOMAIN state.spaceContents) \cup {id}
             /\ state'.spaceContents[id] =
                  prior \o <<[id |-> last'[3], name |-> file.name,
                              size |-> file.size, type |-> file.type]>>
             /\ \A k \in (DOMAIN state.spaceContents) \ {id} :
                  state'.spaceContents[k] = state.spaceContents[k]
             /\ state'.isLoadingContents = FALSE
     /\ last'[1] = "uploadToSpaceRejected" =>
          /\ state'.spaceContents = state.spaceContents
          /\ state'.error # NULL
          /\ state'.isLoadingContents = FALSE
          /\ outcome' = "raised"]_vars

\* C19 is exercised: a file was uploaded to a space that already had one
\* record, and the new record stands behind it.
C19_Witness ==
  /\ last[1] = "uploadToSpaceFulfilled"
  /\ Len(state.spaceContents[last[2].spaceId]) = 2
  /\ state.spaceContents[last[2].spaceId][2].id = last[3]
  /\ state.spaceContents[last[2].spaceId][1].id # last[3]
  /\ state.spaceContents[last[2].spaceId][2].name = last[2].file.name

\* C20: when deleteFromSpace(spaceId, contentId) succeeds, the list of
\* spaceId is its prior list (the empty list if the key was absent) without
\* the records of identifier contentId, in the same order, and the other keys
\* keep their lists; when it fails, spaceContents is unchanged, error is
\* non-null and the failure is re-raised.
C20_DeleteFromSpaceCompletion ==
  [][/\ last'[1] = "deleteFromSpaceFulfilled" =>
          LET id == last'[2].spaceId
              prior == IF id \in DOMAIN state.spaceContents
                         THEN state.spaceContents[id] ELSE <<>>
          IN /\ DOMAIN state'.spaceContents = (DOMAIN state.spaceContents) \cup {id}
             /\ state'.spaceContents[id] =
                  SelectSeq(prior, LAMBDA c : c.id # last'[2].contentId)
             /\ \A k \in (DOMAIN state.spaceContents) \ {id} :
                  state'.spaceContents[k] = state.spaceContents[k]
     /\ last'[1] = "deleteFromSpaceRejected" =>
          /\ state'.spaceContents = state.spaceContents
          /\ state'.error # NULL
          /\ outcome' = "raised"]_vars

\* C20 is exercised: one of two records of a space was deleted and the
\* other one is left.
C20_Witness ==
  /\ last[1] = "deleteFromSpaceFulfilled"
  /\ Len(state.spaceContents[last[2].spaceId]) = 1
  /\ state.spaceContents[last[2].spaceId][1].id # last[2].contentId
  /\ state.isLoadingContents = FALSE

\* C21: when the provider call of login, createSpace, deleteSpace,
\* uploadToSpace or deleteFromSpace fails, the error is recorded and the
\* failure is re-raised; when that of fetchSpaces or fetchSpaceContents
\* fails, the error is recorded and the call returns; in both cases the
\* loading flag of the operation's class is false after the step.
C21_FailurePropagation ==
  [][LET op == last'[1]
         thrown == last'[3]
         writes == {"loginRejected", "createSpaceRejected", "deleteSpaceRejected",
                    "uploadToSpaceRejected", "deleteFromSpaceRejected"}
         reads == {"fetchSpacesRejected", "fetchSpaceContentsRejected"}
     IN /\ op \in writes \cup reads =>
             /\ state'.error # NULL
             /\ thrown.isError => state'.error = Message(thrown.message)
             /\ op = "loginRejected" => state'.isLoading = FALSE
             /\ op \in {"fetchSpacesRejected", "createSpaceRejected",
                        "deleteSpaceRejected"} => state'.isLoadingSpaces = FALSE
             /\ op \in {"fetchSpaceContentsRejected", "uploadToSpaceRejected",
                        "deleteFromSpaceRejected"} => state'.isLoadingContents = FALSE
        /\ op \in writes => outcome' = "raised"
        /\ op \in reads => outcome' = "returned"]_vars

\* C21 is exercised: a deleteFromSpace failed with a value that is not an
\* Error; the fallback message is recorded and the failure was raised.
C21_Witness ==
  /\ last[1] = "deleteFromSpaceRejected"
  /\ ~last[3].isError
  /\ outcome = "raised"
  /\ state.error = Message("Failed to delete content")
  /\ ~state.isLoadingContents

\* C22: a reload restores currentAccount, isAuthenticated, accounts and
\* selectedSpace as they were stored (which is as they were in memory), and
\* error and the three loading flags have their defaults whatever they were.
C22_ReloadRestores ==
  [][last'[1] = "reload" =>
       /\ state'.currentAccount = persisted.currentAccount
       /\ state'.isAuthenticated = persisted.isAuthenticated
       /\ state'.accounts = persisted.accounts
       /\ state'.selectedSpace = persisted.selectedSpace
       /\ state'.currentAccount = state.currentAccount
       /\ state'.isAuthenticated = state.isAuthenticated
       /\ state'.accounts = state.accounts
       /\ state'.selectedSpace = state.selectedSpace
       /\ state'.error = NULL
       /\ state'.isLoading = FALSE
       /\ state'.isLoadingSpaces = FALSE
       /\ state'.isLoadingContents = FALSE]_vars

\* C22 is exercised: the page was reloaded while an error was recorded and
\* contents were loading; the selection is back, the error and the flag are
\* not.
C22_Witness ==
  /\ last[1] = "reload"
  /\ last[2].error # NULL
  /\ last[2].isLoadingContents
  /\ state.selectedSpace # NULL
  /\ state.error = NULL
  /\ ~state.isLoadingContents

\* C23: in every state the stored record is the projection of the state
\* onto currentAccount, isAuthenticated, accounts and selectedSpace, and has
\* no other field.
C23_PersistedIsProjection ==
  /\ DOMAIN persisted =
       {"currentAccount", "isAuthenticated", "accounts", "selectedSpace"}
  /\ \A f \in DOMAIN persisted : persisted[f] = state[f]

\* C23 is exercised: an account is logged in, spaces are listed and an error
\* is recorded; the stored record has the account.
C23_Witness ==
  /\ last[1] # "create"
  /\ state.error # NULL
  /\ Len(state.spaces) > 0
  /\ state.currentAccount # NULL
  /\ persisted.currentAccount = state.currentAccount

\* C24: after reset() every field of the state has its default and the
\* stored record holds the defaults of the persisted subset.
C24_ResetRestoresDefaults ==
  [][last'[1] = "reset" =>
       /\ state' = [currentAccount |-> NULL, isAuthenticated |-> FALSE,
                    accounts |-> <<>>, isLoading |-> FALSE, error |-> NULL,
                    spaces |-> <<>>, selectedSpace |-> NULL,
                    isLoadingSpaces |-> FALSE, spaceContents |-> <<>>,
                    isLoadingContents |-> FALSE]
       /\ persisted' = [currentAccount |-> NULL, isAuthenticated |-> FALSE,
                        accounts |-> <<>>, selectedSpace |-> NULL]]_vars

\* C24 is exercised: reset was called while a createSpace of a logged-in
\* account was in flight; the account and the loading flag are gone.
C24_Witness ==
  /\ last[1] = "reset"
  /\ pending("createSpace") # {}
  /\ state.currentAccount = NULL
  /\ state.accounts = <<>>
  /\ ~state.isLoadingSpaces
  /\ persisted.accounts = <<>>

\* C25: clearError() sets error to null and changes no other field.
C25_ClearErrorFrame ==
  [][last'[1] = "clearError" => state' = [state EXCEPT !.error = NULL]]_vars

\* C25 is exercised: a recorded error was cleared while a login was loading,
\* and the loading flag is still set.
C25_Witness ==
  /\ last[1] = "clearError"
  /\ last[2] # NULL
  /\ state.error = NULL
  /\ state.isLoading

\* C26 as stated: isAuthenticated goes from false to true only in a
\* successful login, from true to false only in logout or removeAccount of
\* the current account, and a successful switchAccount goes from
\* authenticated to authenticated.
C26_StatedStateMachine ==
  [][/\ (~state.isAuthenticated /\ state'.isAuthenticated) =>
          last'[1] = "loginFulfilled"
     /\ (state.isAuthenticated /\ ~state'.isAuthenticated) =>
          \/ last'[1] = "logout"
          \/ last'[1] = "removeAccount" /\ last'[3]
     /\ (/\ last'[1] = "switchAccount"
         /\ \E i \in 1..Len(state.accounts) : state.accounts[i].id = last'[2]) =>
          state.isAuthenticated /\ state'.isAuthenticated]_vars

\* C26, amended: isAuthenticated goes from false to true only in a
\* successful login or a successful switchAccount, from true to false only
\* in logout, removeAccount of the current account or reset, and a
\* successful switchAccount always ends authenticated.
C26_AuthStateMachine ==
  [][/\ (~state.isAuthenticated /\ state'.isAuthenticated) =>
          \/ last'[1] = "loginFulfilled"
          \/ /\ last'[1] = "switchAccount"
             /\ \E i \in 1..Len(state.accounts) : state.accounts[i].id = last'[2]
     /\ (state.isAuthenticated /\ ~state'.isAuthenticated) =>
          \/ last'[1] = "logout"
          \/ last'[1] = "removeAccount" /\ last'[3]
          \/ last'[1] = "reset"
     /\ (/\ last'[1] = "switchAccount"
         /\ \E i \in 1..Len(state.accounts) : state.accounts[i].id = last'[2]) =>
          state'.isAuthenticated]_vars

\* C26 is exercised: a switchAccount to a known account was called while
\* the store was unauthenticated, and the store is authenticated.
C26_Witness ==
  /\ last[1] = "switchAccount"
  /\ ~last[3]
  /\ state.isAuthenticated
  /\ state.currentAccount # NULL
  /\ state.currentAccount.id = last[2]

\* C27: whenever selectSpace(s) is called with a non-null s, s is a member
\* of the spaces list at that moment.
C27_SelectionInSpaces ==
  [][(last'[1] = "selectSpace" /\ last'[2] # NULL) =>
       \E i \in 1..Len(state.spaces) : state.spaces[i] = last'[2]]_vars

C29_LastFailureVisible ==
  [][LET op == last'[1]
         fallback == [loginRejected |-> "Login failed",
                      fetchSpacesRejected |-> "Failed to fetch spaces",
                      createSpaceRejected |-> "Failed to create space",
                      deleteSpaceRejected |-> "Failed to delete space",
                      fetchSpaceContentsRejected |-> "Failed to fetch space contents",
                      uploadToSpaceRejected |-> "Failed to upload file",
                      deleteFromSpaceRejected |-> "Failed to delete content"]
     IN /\ op \in DOMAIN fallback =>
             state'.error = [message |-> IF last'[3].isError THEN last'[3].message
                                         ELSE fallback[op]]
        /\ (op \in {"fetchSpaces", "createSpace"} /\ state.currentAccount = NULL) =>
             state'.error = [message |-> "No account selected"]
        /\ (/\ op = "switchAccount"
            /\ ~ \E i \in 1..Len(state.accounts) : state.accounts[i].id = last'[2]) =>
             state'.error = [message |-> "Account not found"]]_vars

\* C29 is exercised: a content listing failed while the slot held the
\* message of a failure of another class, and only the listing's message is
\* left.
C29_Witness ==
  /\ last[1] = "fetchSpaceContentsRejected"
  /\ last[4] = Message("No account selected")
  /\ ~last[3].isError
  /\ state.error = Message("Failed to fetch space contents")

C32_OverlappingAppendsKept ==
  /\ (calls >= 3 /\ pending("createSpace") = {}) =>
       /\ Len(state.spaces) = 2
       /\ {state.spaces[1].name, state.spaces[2].name} =
            {OverlapNames[1], OverlapNames[2]}
       /\ last[1] = "createSpaceFulfilled" =>
            state.spaces[2] = [id |-> last[3], name |-> last[2].name]
  /\ (calls = 5 /\ pending("uploadToSpace") = {}) =>
       LET list == state.spaceContents[last[2].spaceId]
       IN /\ last[1] = "uploadToSpaceFulfilled"
          /\ Len(list) = 2
          /\ {list[1].name, list[2].name} =
               {OverlapFiles[1].name, OverlapFiles[2].name}
          /\ list[2] = [id |-> last[3], name |-> last[2].file.name,
                        size |-> last[2].file.size, type |-> last[2].file.type]

\* C32 is exercised: both pairs of overlapping calls have been answered, each
\* pair in the order opposite to the order of the calls, and the lists hold
\* both results in the order of the answers.
C32_Witness ==
  /\ calls = 5
  /\ inflight = EmptyBag
  /\ Len(state.spaces) = 2
  /\ state.spaces[1].name = OverlapNames[2]
  /\ state.spaces[2].name = OverlapNames[1]
  /\ Len(state.spaceContents[last[2].spaceId]) = 2
  /\ state.spaceContents[last[2].spaceId][1].name = OverlapFiles[2].name
  /\ state.spaceContents[last[2].spaceId][2].name = OverlapFiles[1].name

\* C33: spaces holds only spaces of the current account: a fetchSpaces or
\* createSpace call writes its result only while the account it was started
\* for is the current one, and a step that makes another account current
\* leaves spaces empty.
C33_SpacesOfCurrentAccount ==
  [][/\ (/\ last'[1] \in {"fetchSpacesFulfilled", "createSpaceFulfilled"}
         /\ state'.currentAccount # NULL
         /\ Len(state'.spaces) > 0) =>
          last'[2].account = state'.currentAccount
     /\ (/\ state'.currentAccount # NULL
         /\ state.currentAccount # NULL
         /\ state'.currentAccount # state.currentAccount) =>
          state'.spaces = <<>>]_vars

C35_NoSpaceStateWithoutAccount ==
  state.currentAccount = NULL =>
    /\ state.spaces = <<>>
    /\ state.selectedSpace = NULL
    /\ state.spaceContents = <<>>

\* C36: in every state, every key of spaceContents is the identifier of a
\* space in spaces.
C36_ContentKeysAreSpaces ==
  \A k \in DOMAIN state.spaceContents :
    \E i \in 1..Len(state.spaces) : state.spaces[i].id = k

\* C37: in every state with a non-null currentAccount, accounts has an
\* entry whose identifier is currentAccount.id.
C37_CurrentAccountListed ==
  state.currentAccount # NULL =>
    \E i \in 1..Len(state.accounts) : state.accounts[i].id = state.currentAccount.id

\* C37 is exercised: another account than the current one was removed, and
\* the current account is still in accounts.
C37_Witness ==
  /\ last[1] = "removeAccount"
  /\ ~last[3]
  /\ state.currentAccount # NULL
  /\ state.currentAccount.id # last[2]
  /\ Len(state.accounts) = 1
  /\ state.accounts[1].id = state.currentAccount.id

\* C38: a successful login leaves spaces, selectedSpace and spaceContents as
\* they were and starts no provider call.
C38_LoginKeepsContext ==
  [][last'[1] = "loginFulfilled" =>
       /\ state'.spaces = state.spaces
       /\ state'.selectedSpace = state.selectedSpace
       /\ state'.spaceContents = state.spaceContents
       /\ inflight' (+) SetToBag({last'[2]}) = inflight]_vars

\* C38 is exercised: a login made a second account current while spaces of
\* the store were listed, and they are still there.
C38_Witness ==
  /\ last[1] = "loginFulfilled"
  /\ Len(state.accounts) = 2
  /\ state.currentAccount = state.accounts[2]
  /\ Len(state.spaces) > 0

\* C39: login, fetchSpaces and createSpace with a current account,
\* deleteSpace, fetchSpaceContents, uploadToSpace and deleteFromSpace change,
\* before their provider call, only the loading flag of their class, which
\* becomes true, and error, which becomes null whatever it held; they start
\* one provider call.
C39_StartFrame ==
  [][LET op == last'[1]
         guarded == op \in {"fetchSpaces", "createSpace"} /\ state.currentAccount # NULL
         flag == CASE op = "login" -> "isLoading"
                   [] op \in {"fetchSpaces", "createSpace", "deleteSpace"} ->
                        "isLoadingSpaces"
                   [] OTHER -> "isLoadingContents"
     IN (\/ op \in {"login", "deleteSpace", "fetchSpaceContents",
                    "uploadToSpace", "deleteFromSpace"}
         \/ guarded) =>
          /\ state' = [state EXCEPT ![flag] = TRUE, !.error = NULL]
          /\ BagCardinality(inflight') = BagCardinality(inflight) + 1]_vars

\* C39 is exercised: an upload was started while an error was recorded and
\* a login was loading; the error is erased, the login flag is still set.
C39_Witness ==
  /\ last[1] = "uploadToSpace"
  /\ last[4] # NULL
  /\ state.error = NULL
  /\ state.isLoadingContents
  /\ state.isLoading
  /\ ~state.isLoadingSpaces

\* C40: switchAccount(id) never raises.  With an unknown id it returns; with
\* a known id it makes that account current with isAuthenticated true and
\* spaces empty and awaits the listing; when the listing it awaits fails,
\* the call returns, the failure's message is in error, isLoadingSpaces is
\* false, and currentAccount, isAuthenticated and spaces are as they were,
\* so that a failure of that listing right after the switch leaves the new
\* account current with no spaces.
C40_SwitchAccountNeverRaises ==
  [][LET known == \E i \in 1..Len(state.accounts) : state.accounts[i].id = last'[2]
         awaited == /\ last'[1] = "fetchSpacesRejected"
                    /\ "awaitedBy" \in DOMAIN last'[2]
     IN /\ last'[1] = "switchAccount" =>
             /\ outcome' = IF known THEN "pending" ELSE "returned"
             /\ known => /\ state'.currentAccount.id = last'[2]
                         /\ state'.isAuthenticated
                         /\ state'.spaces = <<>>
        /\ awaited =>
             /\ outcome' = "returned"
             /\ state'.currentAccount = state.currentAccount
             /\ state'.isAuthenticated = state.isAuthenticated
             /\ state'.spaces = state.spaces
             /\ state'.isLoadingSpaces = FALSE
             /\ state'.error = [message |-> IF last'[3].isError THEN last'[3].message
                                            ELSE "Failed to fetch spaces"]
        /\ (/\ awaited
            /\ last[1] = "switchAccount"
            /\ outcome = "pending"
            /\ last'[2].account.id = last[2]) =>
             /\ state'.currentAccount.id = last[2]
             /\ state'.isAuthenticated
             /\ state'.spaces = <<>>]_vars

\* C40 is exercised: the listing awaited by a switchAccount failed; the
\* account it was started for is current, there are no spaces, the error is
\* recorded and the call has returned.
C40_Witness ==
  /\ last[1] = "fetchSpacesRejected"
  /\ "awaitedBy" \in DOMAIN last[2]
  /\ state.currentAccount = last[2].account
  /\ state.isAuthenticated
  /\ state.spaces = <<>>
  /\ ~state.isLoadingSpaces
  /\ state.error = Message("provider error")
  /\ outcome = "returned"

====
